---- MODULE Spec2Model ----
(***************************************************************************)
(* simplexlog: a leveled facade over the standard line logger.             *)
(* The Logger struct holds seven *log.Logger fields, a mutex and a level.  *)
(* The seven fields are pointers: two fields may hold the same pointer,    *)
(* so the model keeps a heap of line loggers and, per field, an address.   *)
(***************************************************************************)
EXTENDS Integers, Sequences, FiniteSets, TLC

\* sinks, heap, level: the fields of the Logger and the line loggers they
\* point to; nconf, last: the caller's count of configuring calls and its
\* last call; opts, built: the options New is called with and whether it has
\* returned; written: the lines on the destinations; prev: the call before
\* the last; proc, mutex, storing: the goroutines inside a call, the holder
\* of Logger.mutex and the goroutines in the middle of a store of the level
VARIABLES sinks, heap, level, nconf, last,
          opts, built, written, prev, proc, mutex, storing

vars == <<sinks, heap, level, nconf, last, opts, built, written, prev, proc, mutex, storing>>

(* ------------------------------------------------------------------ *)
(* Bounds                                                              *)
(* ------------------------------------------------------------------ *)

\* number of sink-configuring calls (options and SetOutput) in one run
MaxConfigOps == 2

\* raw LogLevel / int values handed to SwitchTo range over 0..MaxRawLevel
MaxRawLevel == 8

\* number of lines the destinations keep of one run
MaxLines == 2

\* number of calls each goroutine makes
MaxCalls == 2

(* ------------------------------------------------------------------ *)
(* Constants of the package                                            *)
(* ------------------------------------------------------------------ *)

Critical == 0
Error == 1
Warning == 2
Notice == 3
Info == 4
Debug == 5
Trace == 6
All == 7

\* log.Ldate | log.Ltime | log.Lmicroseconds
DefaultLogFlags == 7

LevelCritical == <<"C", "R", "I", "T", "I", "C", "A", "L">>
LevelError == <<"E", "R", "R", "O", "R">>
LevelWarning == <<"W", "A", "R", "N", "I", "N", "G">>
LevelNotice == <<"N", "O", "T", "I", "C", "E">>
LevelInfo == <<"I", "N", "F", "O">>
LevelDebug == <<"D", "E", "B", "U", "G">>
LevelTrace == <<"T", "R", "A", "C", "E">>
LevelAll == <<"A", "L", "L">>

\* the pointer fields of the Logger struct, in declaration order
Fields == <<"logCritical", "logError", "logWarning", "logNotice", "logInfo",
            "logDebug", "logTrace">>

FieldSet == {Fields[i] : i \in 1..Len(Fields)}

\* Config{Out, Label, Flags}
Config(out, label, flags) == [Out |-> out, Label |-> label, Flags |-> flags]

(* ------------------------------------------------------------------ *)
(* strings: a string is a sequence of one-character tokens             *)
(* ------------------------------------------------------------------ *)

LowerLetters == <<"a", "b", "c", "d", "e", "f", "g", "h", "i", "j", "k", "l", "m",
                  "n", "o", "p", "q", "r", "s", "t", "u", "v", "w", "x", "y", "z">>

UpperLetters == <<"A", "B", "C", "D", "E", "F", "G", "H", "I", "J", "K", "L", "M",
                  "N", "O", "P", "Q", "R", "S", "T", "U", "V", "W", "X", "Y", "Z">>

\* unicode.IsSpace for the characters used here
IsSpace(c) == c \in {" ", "\t", "\n", "\r"}

\* unicode.ToUpper of one character; "dotless-i" is U+0131, whose upper case is I
ToUpperRune(c) ==
    IF \E i \in 1..Len(LowerLetters) : LowerLetters[i] = c
    THEN UpperLetters[CHOOSE i \in 1..Len(LowerLetters) : LowerLetters[i] = c]
    ELSE IF c = "dotless-i" THEN "I" ELSE c

\* strings.ToUpper
ToUpper(s) == [i \in 1..Len(s) |-> ToUpperRune(s[i])]

\* faulty variant: only the leading white space dropped
TrimSpaceLeft(s) ==
    LET keep == {i \in 1..Len(s) : ~IsSpace(s[i])}
    IN  IF keep = {} THEN <<>>
        ELSE SubSeq(s, CHOOSE i \in keep : \A j \in keep : i <= j, Len(s))

\* strings.TrimSpace: drop the leading and the trailing white space
TrimSpace(s) ==
    LET keep == {i \in 1..Len(s) : ~IsSpace(s[i])}
    IN  IF keep = {} THEN <<>>
        ELSE LET lo == CHOOSE i \in keep : \A j \in keep : i <= j
                 hi == CHOOSE i \in keep : \A j \in keep : j <= i
             IN  SubSeq(s, lo, hi)

\* fmt.Sprintf("%-9s", s): left-justified, padded with spaces to `width`
PadRight(s, width) ==
    IF Len(s) >= width THEN s
    ELSE s \o [i \in 1..(width - Len(s)) |-> " "]

(* ------------------------------------------------------------------ *)
(* the heap of line loggers                                            *)
(* ------------------------------------------------------------------ *)

\* log.New(out, prefix, flags): the fields of a fresh line logger
logNew(c) == [out |-> c.Out, prefix |-> c.Label, flags |-> c.Flags]

\* the nil pointer: the value of a field the struct literal leaves out
Nil == 0

\* an address no field holds
FreshAddr(h) == CHOOSE a \in 1..(Len(Fields) + 1) : a \notin DOMAIN h

\* The numeric value of a pointer is not observable: an object is renamed to
\* the position of the first field that holds it, and objects no field holds
\* are dropped.
FirstField(s, a) == CHOOSE i \in 1..Len(Fields) :
                        /\ s[Fields[i]] = a
                        /\ \A j \in 1..Len(Fields) : s[Fields[j]] = a => i <= j

NormSinks(s) == [f \in FieldSet |-> IF s[f] = Nil THEN Nil ELSE FirstField(s, s[f])]

NormHeap(s, h) ==
    [a \in {FirstField(s, s[f]) : f \in {g \in FieldSet : s[g] # Nil}} |-> h[s[Fields[a]]]]

\* log.Logger.SetOutput(w) on the object at address a
LoggerSetOutput(h, a, w) == [h EXCEPT ![a].out = w]

\* the line log.Logger.Print / Printf writes: destination, prefix, flags
Output(h, a, text) ==
    [dest |-> h[a].out, prefix |-> h[a].prefix, flags |-> h[a].flags, text |-> text]


(* ------------------------------------------------------------------ *)
(* construction options: each is a func on a Logger; lg is the pair of    *)
(* the pointer fields (lg.s) and the heap they point into (lg.h)       *)
(* ------------------------------------------------------------------ *)

\* l.<field> = log.New(c.Out, c.Label, c.Flags)
AssignNew(lg, fields, c) ==
    LET a == FreshAddr(lg.h)
    IN  [s |-> [f \in FieldSet |-> IF f \in fields THEN a ELSE lg.s[f]],
         h |-> [b \in DOMAIN lg.h \cup {a} |-> IF b = a THEN logNew(c) ELSE lg.h[b]]]

\* faulty variant: SetDefault assigning the error fields as well
SetDefaultAll(lg, c) ==
    AssignNew(lg, {"logWarning", "logInfo", "logNotice", "logDebug", "logTrace",
                   "logError"}, c)

SetDefault(lg, c) ==
    AssignNew(lg, {"logWarning", "logInfo", "logNotice", "logDebug", "logTrace"}, c)

SetErrorDefault(lg, c) == AssignNew(lg, {"logError", "logCritical"}, c)

SetAllDefault(lg, c) ==
    AssignNew(lg, {"logWarning", "logInfo", "logNotice", "logDebug", "logTrace",
                   "logError", "logCritical"}, c)

SetDebug(lg, c) == AssignNew(lg, {"logDebug"}, c)

SetTrace(lg, c) == AssignNew(lg, {"logTrace"}, c)

SetCritical(lg, c) == AssignNew(lg, {"logCritical"}, c)

SetError(lg, c) == AssignNew(lg, {"logError"}, c)

SetWarning(lg, c) == AssignNew(lg, {"logWarning"}, c)

SetNotice(lg, c) == AssignNew(lg, {"logNotice"}, c)

SetInfo(lg, c) == AssignNew(lg, {"logInfo"}, c)

\* the calls l.<field>.SetOutput(w), one after the other, for a list of fields
SetOutputAll(h, s, fs, w) ==
    LET RECURSIVE go(_, _)
        go(hh, i) == IF i > Len(fs) THEN hh
                     ELSE go(LoggerSetOutput(hh, s[fs[i]], w), i + 1)
    IN  go(h, 1)

\* the fields the switch of SetOutput addresses for a level: none when no case matches
OutputCase(lvl) ==
    CASE lvl = Info -> <<"logInfo">>
      [] lvl = Notice -> <<"logNotice">>
      [] lvl = Warning -> <<"logWarning">>
      [] lvl = Debug -> <<"logDebug">>
      [] lvl = Trace -> <<"logTrace">>
      [] lvl = Error -> <<"logError">>
      [] lvl = Critical -> <<"logCritical">>
      [] lvl = All -> <<"logInfo", "logNotice", "logWarning", "logDebug", "logTrace",
                        "logError", "logCritical">>
      [] OTHER -> <<>>

\* the option SetOutput(level, w)
SetOutput(lg, lvl, w) ==
    [s |-> lg.s, h |-> SetOutputAll(lg.h, lg.s, OutputCase(lvl), w)]

\* faulty variant: the case All of the method without its last line but one
MethodOutputCaseShort(lvl) ==
    CASE lvl = Info -> <<"logInfo">>
      [] lvl = Notice -> <<"logNotice">>
      [] lvl = Warning -> <<"logWarning">>
      [] lvl = Debug -> <<"logDebug">>
      [] lvl = Trace -> <<"logTrace">>
      [] lvl = Error -> <<"logError">>
      [] lvl = Critical -> <<"logCritical">>
      [] lvl = All -> <<"logInfo", "logNotice", "logWarning", "logDebug", "logTrace",
                        "logCritical">>
      [] OTHER -> <<>>

\* the fields the switch of the method Logger.SetOutput addresses
MethodOutputCase(lvl) ==
    CASE lvl = Info -> <<"logInfo">>
      [] lvl = Notice -> <<"logNotice">>
      [] lvl = Warning -> <<"logWarning">>
      [] lvl = Debug -> <<"logDebug">>
      [] lvl = Trace -> <<"logTrace">>
      [] lvl = Error -> <<"logError">>
      [] lvl = Critical -> <<"logCritical">>
      [] lvl = All -> <<"logInfo", "logNotice", "logWarning", "logDebug", "logTrace",
                        "logError", "logCritical">>
      [] OTHER -> <<>>

\* the method Logger.SetOutput(level, w)
MethodSetOutput(lg, lvl, w) ==
    [s |-> lg.s, h |-> SetOutputAll(lg.h, lg.s, MethodOutputCase(lvl), w)]

\* the logger New builds before it applies the options
NewDefaults ==
    [s |-> [f \in FieldSet |-> CHOOSE i \in 1..Len(Fields) : Fields[i] = f],
     h |-> [a \in 1..Len(Fields) |->
              CASE Fields[a] = "logCritical" ->
                       logNew(Config("os.Stderr", PadRight(LevelCritical, 9), DefaultLogFlags))
                [] Fields[a] = "logError" ->
                       logNew(Config("os.Stderr", PadRight(LevelError, 9), DefaultLogFlags))
                [] Fields[a] = "logWarning" ->
                       logNew(Config("os.Stdout", PadRight(LevelWarning, 9), DefaultLogFlags))
                [] Fields[a] = "logNotice" ->
                       logNew(Config("os.Stdout", PadRight(LevelNotice, 9), DefaultLogFlags))
                [] Fields[a] = "logInfo" ->
                       logNew(Config("os.Stdout", PadRight(LevelInfo, 9), DefaultLogFlags))
                [] Fields[a] = "logDebug" ->
                       logNew(Config("os.Stdout", PadRight(LevelDebug, 9), DefaultLogFlags))
                [] Fields[a] = "logTrace" ->
                       logNew(Config("os.Stdout", PadRight(LevelTrace, 9), DefaultLogFlags))]]

(* ------------------------------------------------------------------ *)
(* the filter level                                                    *)
(* ------------------------------------------------------------------ *)

\* faulty variant: the range check refusing Critical as well
switchToAbove(lv, v) == IF v <= Critical \/ v > All THEN lv ELSE v

\* switchTo(level): the level afterwards
switchTo(lv, v) == IF v < Critical \/ v > All THEN lv ELSE v

\* faulty variant: a string that matches no name falls back to Info
switchToLevelDefault(lv, name) ==
    LET n == TrimSpace(ToUpper(name))
    IN  CASE n = LevelCritical -> Critical
          [] n = LevelError -> Error
          [] n = LevelWarning -> Warning
          [] n = LevelNotice -> Notice
          [] n = LevelInfo -> Info
          [] n = LevelDebug -> Debug
          [] n = LevelTrace -> Trace
          [] n = LevelAll -> All
          [] OTHER -> Info

\* switchToLevel(level string): the level afterwards
switchToLevel(lv, name) ==
    LET n == TrimSpace(ToUpper(name))
    IN  CASE n = LevelCritical -> Critical
          [] n = LevelError -> Error
          [] n = LevelWarning -> Warning
          [] n = LevelNotice -> Notice
          [] n = LevelInfo -> Info
          [] n = LevelDebug -> Debug
          [] n = LevelTrace -> Trace
          [] n = LevelAll -> All
          [] OTHER -> lv

\* Level(): the level read under the mutex
Level == level

\* LevelName()
LevelName(lv) ==
    CASE lv = Critical -> LevelCritical
      [] lv = Error -> LevelError
      [] lv = Warning -> LevelWarning
      [] lv = Notice -> LevelNotice
      [] lv = Info -> LevelInfo
      [] lv = Debug -> LevelDebug
      [] lv = Trace -> LevelTrace
      [] lv = All -> LevelAll
      [] OTHER -> <<"?">>


(* ------------------------------------------------------------------ *)
(* the methods that print                                              *)
(* ------------------------------------------------------------------ *)

\* the gated methods: the severity each compares Level() with, the field it
\* prints to and the call it makes on it
EmitMethods ==
    { [name |-> "Infof", gate |-> Info, field |-> "logInfo", call |-> "Printf"],
      [name |-> "Noticef", gate |-> Notice, field |-> "logNotice", call |-> "Printf"],
      [name |-> "Warningf", gate |-> Warning, field |-> "logWarning", call |-> "Printf"],
      [name |-> "Errorf", gate |-> Error, field |-> "logError", call |-> "Printf"],
      [name |-> "Criticalf", gate |-> Critical, field |-> "logCritical", call |-> "Printf"],
      [name |-> "Debugf", gate |-> Debug, field |-> "logDebug", call |-> "Printf"],
      [name |-> "Tracef", gate |-> Trace, field |-> "logTrace", call |-> "Printf"],
      [name |-> "Info", gate |-> Info, field |-> "logInfo", call |-> "Print"],
      [name |-> "Notice", gate |-> Notice, field |-> "logNotice", call |-> "Print"],
      [name |-> "Warning", gate |-> Warning, field |-> "logWarning", call |-> "Print"],
      [name |-> "Error", gate |-> Error, field |-> "logError", call |-> "Print"],
      [name |-> "Critical", gate |-> Critical, field |-> "logCritical", call |-> "Print"],
      [name |-> "Debug", gate |-> Debug, field |-> "logDebug", call |-> "Print"],
      [name |-> "Trace", gate |-> Trace, field |-> "logTrace", call |-> "Print"] }

\* faulty variant: the comparison made strict
AdmittedStrict(lv, gate) == lv > gate

\* the condition of a gated method: l.Level() >= gate
Admitted(lv, gate) == lv >= gate

\* faulty variant: an admitted line written to the Critical line logger as well
GatedEcho(m, lv, s, h) ==
    IF Admitted(lv, m.gate)
    THEN <<Output(h, s[m.field], m.call), Output(h, s["logCritical"], m.call)>>
    ELSE <<>>

\* the lines a gated method writes
Gated(m, lv, s, h) ==
    IF Admitted(lv, m.gate) THEN <<Output(h, s[m.field], m.call)>> ELSE <<>>

\* Fatalf, Panicf, Fatal, Panic: the field each prints to, the call it makes on
\* it and how that call ends (os.Exit(1) or panic)
FinalMethods ==
    { [name |-> "Fatalf", field |-> "logCritical", call |-> "Fatalf", outcome |-> "exit"],
      [name |-> "Panicf", field |-> "logCritical", call |-> "Panicf", outcome |-> "panic"],
      [name |-> "Fatal", field |-> "logCritical", call |-> "Fatal", outcome |-> "exit"],
      [name |-> "Panic", field |-> "logCritical", call |-> "Panic", outcome |-> "panic"] }

\* faulty variant: Fatalf, Panicf, Fatal and Panic gated like Criticalf, strictly
FinalGated(m, lv, s, h) ==
    IF lv > Critical THEN <<Output(h, s[m.field], m.call)>> ELSE <<>>

\* the lines Fatalf, Panicf, Fatal and Panic write
Final(m, lv, s, h) == <<Output(h, s[m.field], m.call)>>

\* InfoLogger .. TraceLogger: the field each returns
Accessors ==
    { [name |-> "InfoLogger", field |-> "logInfo"],
      [name |-> "NoticeLogger", field |-> "logCritical"],
      [name |-> "WarningLogger", field |-> "logWarning"],
      [name |-> "ErrorLogger", field |-> "logError"],
      [name |-> "CriticalLogger", field |-> "logCritical"],
      [name |-> "DebugLogger", field |-> "logDebug"],
      [name |-> "TraceLogger", field |-> "logTrace"] }

(* ------------------------------------------------------------------ *)
(* inputs                                                              *)
(* ------------------------------------------------------------------ *)

\* the Config values handed to the options
Configs == { Config("buf1", <<"A", "P", "P", " ">>, 0),
             Config("os.Stderr", <<>>, DefaultLogFlags) }

\* the writers handed to SetOutput
OutputWriters == {"buf2"}

\* the lower-case form of a level name
ToLowerName(s) ==
    [i \in 1..Len(s) |->
        IF \E k \in 1..Len(UpperLetters) : UpperLetters[k] = s[i]
        THEN LowerLetters[CHOOSE k \in 1..Len(UpperLetters) : UpperLetters[k] = s[i]]
        ELSE s[i]]

\* first letter upper case, the rest lower case
Capitalised(s) == [i \in 1..Len(s) |-> IF i = 1 THEN s[i] ELSE ToLowerName(s)[i]]

LevelNameList == <<LevelCritical, LevelError, LevelWarning, LevelNotice, LevelInfo,
                   LevelDebug, LevelTrace, LevelAll>>

ValidCores ==
    UNION { {LevelNameList[i], ToLowerName(LevelNameList[i]), Capitalised(LevelNameList[i])} :
            i \in 1..Len(LevelNameList) }
      \cup { <<"n", "o", "t", "dotless-i", "c", "e">> }

InvalidCores ==
    { <<>>,
      <<"b", "o", "g", "u", "s">>,
      <<"E", "R", "R">>,
      <<"e", "r", "r", "o", "r", "s">>,
      <<"A", " ", "L", "L">>,
      <<"W", "A", "R", "N">>,
      <<"I", "N", "F", "0">>,
      <<"4">> }

Paddings == { <<<<>>, <<>>>>, <<<<" ", " ">>, <<" ", " ">>>>, <<<<"\t">>, <<>>>>,
              <<<<>>, <<"\r", "\n">>>> }

\* the strings handed to SwitchTo
NameInputs == { p[1] \o c \o p[2] : c \in ValidCores \cup InvalidCores, p \in Paddings }

\* the strings of the README and of a caller's typical mistakes
FewNames ==
    { <<"e", "r", "r", "o", "r">>,
      <<" ", " ", "E", "r", "r", "o", "r", " ", " ">>,
      <<"A", "L", "L">>,
      <<"b", "o", "g", "u", "s">>,
      <<>> }

StringArgs(names) == { [type |-> "string", val |-> 0, name |-> n] : n \in names }

\* the values handed to SwitchTo that are no string: an int, a LogLevel (an
\* unsigned integer) or a value of another type
RawArgs ==
    { [type |-> "int", val |-> v, name |-> <<>>] : v \in (0 - 1)..MaxRawLevel }
      \cup { [type |-> "LogLevel", val |-> v, name |-> <<>>] : v \in 0..MaxRawLevel }
      \cup { [type |-> "float64", val |-> 0, name |-> <<>>] }

SwitchArgs == StringArgs(FewNames) \cup RawArgs

NameArgs == StringArgs(NameInputs)

(* ------------------------------------------------------------------ *)
(* the state machine                                                   *)
(* ------------------------------------------------------------------ *)

NoConfig == Config("", <<>>, 0)

NoArg == [type |-> "", val |-> 0, name |-> <<>>]

\* the record of the last call: what was called with what, the lines it wrote,
\* what it returned and how it ended ("return", "panic" or "exit")
Call(op, arg, w, cfg, lines, ret, outcome) ==
    [op |-> op, arg |-> arg, w |-> w, cfg |-> cfg, lines |-> lines, ret |-> ret,
     outcome |-> outcome]

NoCall == Call("", NoArg, "", NoConfig, <<>>, <<>>, "return")

\* the caller is between two calls: the last one has returned, or has panicked
\* and was recovered, and the process has not called os.Exit
Running == last = NoCall

\* the goroutines that call the logger at the same time
Procs == {"g1", "g2"}

\* no goroutine: the holder of a free mutex
NoProc == ""

\* a goroutine that has made no call yet
IdleProc ==
    [op |-> "", arg |-> NoArg, gate |-> Critical, field |-> "", call |-> "", pc |-> "idle",
     val |-> <<>>, rd |-> <<>>, cur |-> {}, acq |-> 0, lines |-> <<>>, outcome |-> "return",
     calls |-> 0]

\* New was called with no option and has returned, nothing is recorded of the
\* calls made so far, and no goroutine is inside a call
Constructed ==
    /\ opts = <<>>
    /\ built = TRUE
    /\ written = <<>>
    /\ prev = NoCall
    /\ proc = [g \in Procs |-> IdleProc]
    /\ mutex = NoProc
    /\ storing = {}

\* a call made by one goroutine while no other is inside a call: it runs from
\* its first statement to its return without interleaving
Sequential(A) == A /\ UNCHANGED <<opts, built, written, prev, proc, mutex, storing>>

\* New(): the defaults, before any option is applied
Init ==
    /\ sinks = NewDefaults.s
    /\ heap = NewDefaults.h
    /\ level = Info
    /\ nconf = 0
    /\ last = NoCall
    /\ Constructed

\* one option applied to the logger, by the loop of New or by a later call
Configure(op, lg, arg, w, c) ==
    /\ Running
    /\ nconf < MaxConfigOps
    /\ sinks' = NormSinks(lg.s)
    /\ heap' = NormHeap(lg.s, lg.h)
    /\ nconf' = nconf + 1
    /\ last' = Call(op, arg, w, c, <<>>, <<>>, "return")
    /\ UNCHANGED level

Logger == [s |-> sinks, h |-> heap]

OptSetDefault == \E c \in Configs : Configure("SetDefault", SetDefault(Logger, c), NoArg, "", c)

OptSetErrorDefault ==
    \E c \in Configs : Configure("SetErrorDefault", SetErrorDefault(Logger, c), NoArg, "", c)

OptSetAllDefault ==
    \E c \in Configs : Configure("SetAllDefault", SetAllDefault(Logger, c), NoArg, "", c)

OptSetDebug == \E c \in Configs : Configure("SetDebug", SetDebug(Logger, c), NoArg, "", c)

OptSetTrace == \E c \in Configs : Configure("SetTrace", SetTrace(Logger, c), NoArg, "", c)

OptSetCritical ==
    \E c \in Configs : Configure("SetCritical", SetCritical(Logger, c), NoArg, "", c)

OptSetError == \E c \in Configs : Configure("SetError", SetError(Logger, c), NoArg, "", c)

OptSetWarning ==
    \E c \in Configs : Configure("SetWarning", SetWarning(Logger, c), NoArg, "", c)

OptSetNotice == \E c \in Configs : Configure("SetNotice", SetNotice(Logger, c), NoArg, "", c)

OptSetInfo == \E c \in Configs : Configure("SetInfo", SetInfo(Logger, c), NoArg, "", c)

LevelArg(v) == [type |-> "LogLevel", val |-> v, name |-> <<>>]

OptSetOutput ==
    \E v \in 0..MaxRawLevel, w \in OutputWriters :
        Configure("SetOutput", SetOutput(Logger, v, w), LevelArg(v), w, NoConfig)

CallSetOutput ==
    \E v \in 0..MaxRawLevel, w \in OutputWriters :
        Configure("Logger.SetOutput", MethodSetOutput(Logger, v, w), LevelArg(v), w, NoConfig)

\* SwitchTo(level interface{}): the type switch, then switchToLevel or switchTo;
\* in the case "int, LogLevel" the variable keeps the interface type and the
\* assertion lvl.(LogLevel) panics on a value whose dynamic type is int
SwitchTo(arg, lv) ==
    CASE arg.type = "string" -> [level |-> switchToLevel(lv, arg.name), outcome |-> "return"]
      [] arg.type \in {"int", "LogLevel"} ->
            IF arg.type = "LogLevel"
            THEN [level |-> switchTo(lv, arg.val), outcome |-> "return"]
            ELSE [level |-> lv, outcome |-> "panic"]
      [] OTHER -> [level |-> lv, outcome |-> "return"]

CallSwitchTo(args) ==
    \E arg \in args :
        LET r == SwitchTo(arg, level)
        IN  /\ Running
            /\ level' = r.level
            /\ last' = Call("SwitchTo", arg, "", NoConfig, <<>>, <<>>, r.outcome)
            /\ UNCHANGED <<sinks, heap, nconf>>

CallLevel ==
    /\ Running
    /\ last' = Call("Level", NoArg, "", NoConfig, <<>>, <<Level>>, "return")
    /\ UNCHANGED <<sinks, heap, level, nconf>>

CallLevelName ==
    /\ Running
    /\ last' = Call("LevelName", NoArg, "", NoConfig, <<>>, <<LevelName(level)>>, "return")
    /\ UNCHANGED <<sinks, heap, level, nconf>>

Emit ==
    \E m \in EmitMethods :
        /\ Running
        /\ last' = Call(m.name, NoArg, "", NoConfig, Gated(m, Level, sinks, heap), <<>>,
                        "return")
        /\ UNCHANGED <<sinks, heap, level, nconf>>

EmitFinal ==
    \E m \in FinalMethods :
        /\ Running
        /\ last' = Call(m.name, NoArg, "", NoConfig, Final(m, level, sinks, heap), <<>>,
                        m.outcome)
        /\ UNCHANGED <<sinks, heap, level, nconf>>

\* an accessor returns a pointer; ret holds the address
CallAccessor ==
    \E m \in Accessors :
        /\ Running
        /\ last' = Call(m.name, NoArg, "", NoConfig, <<>>, <<sinks[m.field]>>, "return")
        /\ UNCHANGED <<sinks, heap, level, nconf>>

\* the caller takes the result of the call and goes on, unless the call ended
\* the process
Resume ==
    /\ last # NoCall
    /\ last.outcome # "exit"
    /\ last' = NoCall
    /\ UNCHANGED <<sinks, heap, level, nconf>>

Next ==
    \/ Sequential(OptSetDefault)
    \/ Sequential(OptSetErrorDefault)
    \/ Sequential(OptSetAllDefault)
    \/ Sequential(OptSetDebug)
    \/ Sequential(OptSetTrace)
    \/ Sequential(OptSetCritical)
    \/ Sequential(OptSetError)
    \/ Sequential(OptSetWarning)
    \/ Sequential(OptSetNotice)
    \/ Sequential(OptSetInfo)
    \/ Sequential(OptSetOutput)
    \/ Sequential(CallSetOutput)
    \/ Sequential(CallSwitchTo(SwitchArgs))
    \/ Sequential(CallLevel)
    \/ Sequential(CallLevelName)
    \/ Sequential(Emit)
    \/ Sequential(EmitFinal)
    \/ Sequential(CallAccessor)
    \/ Sequential(Resume)

Spec == Init /\ [][Next]_vars

\* the calls that set and read the level, with every spelling of the names
NextNames ==
    \/ Sequential(OptSetAllDefault)
    \/ Sequential(CallSetOutput)
    \/ Sequential(CallSwitchTo(NameArgs))
    \/ Sequential(CallLevel)
    \/ Sequential(CallLevelName)
    \/ Sequential(Resume)

SpecNames == Init /\ [][NextNames]_vars


(* ------------------------------------------------------------------ *)
(* the older variant of the package: SetLevel in place of SwitchTo, no  *)
(* SetOutput, no LevelName, and other names for the gated methods       *)
(* ------------------------------------------------------------------ *)

\* the logger the older New builds before it applies the options: one line
\* logger for Critical and Error, one for Warning, Info, Debug and Trace, and
\* no logNotice in the struct literal
OldNewDefaults ==
    [s |-> [f \in FieldSet |->
              CASE f \in {"logCritical", "logError"} -> 1
                [] f \in {"logWarning", "logInfo", "logDebug", "logTrace"} -> 3
                [] OTHER -> Nil],
     h |-> [a \in {1, 3} |->
              IF a = 1 THEN logNew(Config("os.Stderr", <<>>, DefaultLogFlags))
              ELSE logNew(Config("os.Stdout", <<>>, DefaultLogFlags))]]

\* SetLevel(level): the level afterwards
SetLevel(lv, v) == v

\* the gated methods of the older variant
OldEmitMethods ==
    { [name |-> "InfoPrintf", gate |-> Info, field |-> "logInfo", call |-> "Printf"],
      [name |-> "NoticePrintf", gate |-> Notice, field |-> "logNotice", call |-> "Printf"],
      [name |-> "WarningPrintf", gate |-> Warning, field |-> "logWarning", call |-> "Printf"],
      [name |-> "ErrorPrintf", gate |-> Error, field |-> "logError", call |-> "Printf"],
      [name |-> "CriticalPrintf", gate |-> Critical, field |-> "logCritical",
       call |-> "Printf"],
      [name |-> "DebugPrintf", gate |-> Debug, field |-> "logDebug", call |-> "Printf"],
      [name |-> "TracePrintf", gate |-> Trace, field |-> "logTrace", call |-> "Printf"],
      [name |-> "InfoPrint", gate |-> Info, field |-> "logInfo", call |-> "Print"],
      [name |-> "NoticePrint", gate |-> Notice, field |-> "logNotice", call |-> "Print"],
      [name |-> "WarningPrint", gate |-> Warning, field |-> "logWarning", call |-> "Print"],
      [name |-> "ErrorPrint", gate |-> Error, field |-> "logError", call |-> "Print"],
      [name |-> "CriticalPrint", gate |-> Critical, field |-> "logCritical", call |-> "Print"],
      [name |-> "DebugPrint", gate |-> Debug, field |-> "logDebug", call |-> "Print"],
      [name |-> "TracePrint", gate |-> Trace, field |-> "logTrace", call |-> "Print"] }

\* the lines a gated method of the older variant writes and how the call ends:
\* a call on a nil line logger panics
OldGated(m, lv, s, h) ==
    IF lv >= m.gate
    THEN IF s[m.field] = Nil
         THEN [lines |-> <<>>, outcome |-> "panic"]
         ELSE [lines |-> <<Output(h, s[m.field], m.call)>>, outcome |-> "return"]
    ELSE [lines |-> <<>>, outcome |-> "return"]

InitOld ==
    /\ sinks = OldNewDefaults.s
    /\ heap = OldNewDefaults.h
    /\ level = Info
    /\ nconf = 0
    /\ last = NoCall
    /\ Constructed

CallSetLevel ==
    \E v \in 0..MaxRawLevel :
        /\ Running
        /\ level' = SetLevel(level, v)
        /\ last' = Call("SetLevel", LevelArg(v), "", NoConfig, <<>>, <<>>, "return")
        /\ UNCHANGED <<sinks, heap, nconf>>

OldEmit ==
    \E m \in OldEmitMethods :
        LET r == OldGated(m, Level, sinks, heap)
        IN  /\ Running
            /\ last' = Call(m.name, NoArg, "", NoConfig, r.lines, <<>>, r.outcome)
            /\ UNCHANGED <<sinks, heap, level, nconf>>

NextOld ==
    \/ Sequential(OptSetDefault)
    \/ Sequential(OptSetErrorDefault)
    \/ Sequential(OptSetAllDefault)
    \/ Sequential(OptSetDebug)
    \/ Sequential(OptSetTrace)
    \/ Sequential(OptSetCritical)
    \/ Sequential(OptSetError)
    \/ Sequential(OptSetWarning)
    \/ Sequential(OptSetNotice)
    \/ Sequential(OptSetInfo)
    \/ Sequential(CallSetLevel)
    \/ Sequential(CallLevel)
    \/ Sequential(OldEmit)
    \/ Sequential(EmitFinal)
    \/ Sequential(CallAccessor)
    \/ Sequential(Resume)

SpecOld == InitOld /\ [][NextOld]_vars

(* ------------------------------------------------------------------ *)
(* construction: New called with a list of options                     *)
(* ------------------------------------------------------------------ *)

\* an option: the closure one of the option functions returns, with the
\* arguments it has captured
Option(kind, c, arg, w) == [kind |-> kind, cfg |-> c, arg |-> arg, w |-> w]

\* the option functions that take a Config
ConfigOptions ==
    {"SetDefault", "SetErrorDefault", "SetAllDefault", "SetDebug", "SetTrace", "SetCritical",
     "SetError", "SetWarning", "SetNotice", "SetInfo"}

\* the options of the older variant, which has no SetOutput
OldOptions == { Option(k, c, NoArg, "") : k \in ConfigOptions, c \in Configs }

Options ==
    OldOptions \cup { Option("SetOutput", NoConfig, LevelArg(v), w) :
                        v \in 0..MaxRawLevel, w \in OutputWriters }

\* config(&logger): the option called on the logger
ApplyOption(lg, o) ==
    CASE o.kind = "SetDefault" -> SetDefault(lg, o.cfg)
      [] o.kind = "SetErrorDefault" -> SetErrorDefault(lg, o.cfg)
      [] o.kind = "SetAllDefault" -> SetAllDefault(lg, o.cfg)
      [] o.kind = "SetDebug" -> SetDebug(lg, o.cfg)
      [] o.kind = "SetTrace" -> SetTrace(lg, o.cfg)
      [] o.kind = "SetCritical" -> SetCritical(lg, o.cfg)
      [] o.kind = "SetError" -> SetError(lg, o.cfg)
      [] o.kind = "SetWarning" -> SetWarning(lg, o.cfg)
      [] o.kind = "SetNotice" -> SetNotice(lg, o.cfg)
      [] o.kind = "SetInfo" -> SetInfo(lg, o.cfg)
      [] o.kind = "SetOutput" -> SetOutput(lg, o.arg.val, o.w)

\* the line loggers no field holds any more are collected
Collect(lg) == [s |-> NormSinks(lg.s), h |-> NormHeap(lg.s, lg.h)]

\* for _, config := range configurations { config(&logger) }
RECURSIVE ApplyOptions(_, _)
ApplyOptions(lg, os) ==
    IF os = <<>> THEN lg
    ELSE ApplyOptions(Collect(ApplyOption(lg, Head(os))), Tail(os))

\* New(configurations...): the defaults, then the options in the order given
New(os) == ApplyOptions(NewDefaults, os)

\* New of the older variant
OldNew(os) == ApplyOptions(OldNewDefaults, os)

\* the argument lists New is called with
OptionSeqs(options) == UNION { [1..n -> options] : n \in 0..MaxConfigOps }

\* the caller is about to call New with the options opts: no logger yet
BeforeNew(options) ==
    /\ sinks = [f \in FieldSet |-> Nil]
    /\ heap = <<>>
    /\ level = Critical
    /\ nconf = 0
    /\ last = NoCall
    /\ opts \in OptionSeqs(options)
    /\ built = FALSE
    /\ written = <<>>
    /\ prev = NoCall
    /\ proc = [g \in Procs |-> IdleProc]
    /\ mutex = NoProc
    /\ storing = {}

\* the call of New returns the logger lg, its level Info
Construct(lg) ==
    /\ built = FALSE
    /\ sinks' = lg.s
    /\ heap' = lg.h
    /\ level' = Info
    /\ built' = TRUE
    /\ last' = Call("New", NoArg, "", NoConfig, <<>>, <<>>, "return")
    /\ UNCHANGED <<nconf, opts, written, prev, proc, mutex, storing>>

CallNew == Construct(New(opts))

CallOldNew == Construct(OldNew(opts))

\* a call on the logger New has returned
OnBuilt(A) == built /\ Sequential(A)

InitNew == BeforeNew(Options)

NextNew ==
    \/ CallNew
    \/ OnBuilt(CallLevel)
    \/ OnBuilt(Emit)
    \/ OnBuilt(CallAccessor)
    \/ OnBuilt(Resume)

SpecNew == InitNew /\ [][NextNew]_vars

InitOldNew == BeforeNew(OldOptions)

NextOldNew ==
    \/ CallOldNew
    \/ OnBuilt(CallLevel)
    \/ OnBuilt(OldEmit)
    \/ OnBuilt(CallAccessor)
    \/ OnBuilt(Resume)

SpecOldNew == InitOldNew /\ [][NextOldNew]_vars

(* ------------------------------------------------------------------ *)
(* the lines on the destinations, and the call before the last one     *)
(* ------------------------------------------------------------------ *)

\* the LogLevel values of the eight levels
LevelArgs == { LevelArg(v) : v \in Critical..All }

\* a call whose lines reach the destinations: written holds them in the order
\* of the writes
Logged(A) ==
    /\ Len(written) < MaxLines
    /\ A
    /\ written' = written \o last'.lines
    /\ UNCHANGED <<opts, built, prev, proc, mutex, storing>>

NextLines ==
    \/ Logged(OptSetDefault)
    \/ Logged(CallSwitchTo(LevelArgs))
    \/ Logged(Emit)
    \/ Logged(Resume)

SpecLines == Init /\ [][NextLines]_vars

\* a call made after another one: when the caller goes on, prev keeps the call
\* that has just ended
After(A) ==
    /\ A
    /\ prev' = (IF last' = NoCall THEN last ELSE prev)
    /\ UNCHANGED <<opts, built, written, proc, mutex, storing>>

NextTwice ==
    \/ After(OptSetErrorDefault)
    \/ After(CallSwitchTo(SwitchArgs))
    \/ After(CallLevel)
    \/ After(Resume)

SpecTwice == Init /\ [][NextTwice]_vars

(* ------------------------------------------------------------------ *)
(* goroutines calling one logger at the same time: each call is a list *)
(* of steps, and the steps of the goroutines interleave                *)
(* ------------------------------------------------------------------ *)

\* a value that is neither the level before a store nor the level stored
Torn == All + 1

\* the arguments of the SwitchTo calls made at the same time
ConcArgs ==
    { LevelArg(Critical), LevelArg(MaxRawLevel),
      [type |-> "int", val |-> Warning, name |-> <<>>] }
      \cup StringArgs({ <<"A", "L", "L">>, <<"b", "o", "g", "u", "s">> })

\* the gated methods called at the same time
ConcMethods == { m \in EmitMethods : m.name \in {"Warningf", "Debug"} }

\* the calls a goroutine makes: op, argument and, for a gated method, its
\* gate, its field and the call it makes on the line logger
ConcCalls ==
    { [op |-> "SwitchTo", arg |-> a, gate |-> Critical, field |-> "", call |-> ""] :
        a \in ConcArgs }
      \cup { [op |-> o, arg |-> NoArg, gate |-> Critical, field |-> "", call |-> ""] :
               o \in {"Level", "LevelName"} }
      \cup { [op |-> m.name, arg |-> NoArg, gate |-> m.gate, field |-> m.field,
              call |-> m.call] : m \in ConcMethods }

\* the goroutine is inside a call
InCall(p) == p.pc \notin {"idle", "done"}

\* the statements of a call before it takes the mutex. SwitchTo: the type
\* switch, then the range check of switchTo, which returns without taking the
\* mutex, or the trimming of switchToLevel; val is the level the call is to
\* store, none when no case of switchToLevel matches
Enter(p, c, lv) ==
    LET r == IF c.op = "SwitchTo" THEN SwitchTo(c.arg, Torn)
             ELSE [level |-> Torn, outcome |-> "return"]
        locks == \/ c.op # "SwitchTo"
                 \/ c.arg.type = "string"
                 \/ c.arg.type = "LogLevel" /\ r.level # Torn
    IN  [op |-> c.op, arg |-> c.arg, gate |-> c.gate, field |-> c.field, call |-> c.call,
         pc |-> IF locks THEN "Lock" ELSE "done",
         val |-> IF r.level = Torn THEN <<>> ELSE <<r.level>>,
         rd |-> <<>>, cur |-> {lv}, acq |-> 0, lines |-> <<>>, outcome |-> r.outcome,
         calls |-> p.calls + 1]

Begin(g) ==
    \E c \in ConcCalls :
        /\ ~InCall(proc[g])
        /\ proc[g].calls < MaxCalls
        /\ proc' = [proc EXCEPT ![g] = Enter(proc[g], c, level)]
        /\ UNCHANGED <<sinks, heap, level, nconf, last, opts, built, written, prev, mutex,
                       storing>>

\* faulty variant: a mutex that lets every caller in
CanLockAlways(g) == TRUE

\* l.mutex.Lock() returns only when no goroutine holds the mutex
CanLock(g) == mutex = NoProc

\* l.mutex.Lock(), and the statement the call goes to
Lock(g) ==
    /\ proc[g].pc = "Lock"
    /\ CanLock(g)
    /\ mutex' = g
    /\ proc' = [proc EXCEPT ![g].acq = @ + 1,
                            ![g].pc = IF proc[g].op # "SwitchTo" THEN "read"
                                      ELSE IF proc[g].val = <<>> THEN "Unlock"
                                      ELSE "store"]
    /\ UNCHANGED <<sinks, heap, level, nconf, last, opts, built, written, prev, storing>>

\* l.level = level: the store begins
Store(g) ==
    /\ proc[g].pc = "store"
    /\ storing' = storing \cup {g}
    /\ proc' = [proc EXCEPT ![g].pc = "stored"]
    /\ UNCHANGED <<sinks, heap, level, nconf, last, opts, built, written, prev, mutex>>

\* the store ends: the level is the value stored, or anything when another
\* store was under way; cur keeps, for each call under way, the levels there
\* have been since it began
Stored(g) ==
    /\ proc[g].pc = "stored"
    /\ \E v \in (IF storing = {g} THEN {proc[g].val[1]} ELSE {proc[g].val[1], Torn}) :
        /\ level' = v
        /\ storing' = storing \ {g}
        /\ proc' = [q \in Procs |->
                      IF q = g THEN [proc[q] EXCEPT !.pc = "Unlock", !.cur = @ \cup {v}]
                      ELSE IF InCall(proc[q]) THEN [proc[q] EXCEPT !.cur = @ \cup {v}]
                      ELSE proc[q]]
        /\ UNCHANGED <<sinks, heap, nconf, last, opts, built, written, prev, mutex>>

\* faulty variant: the level New has set, kept by the caller
ReadLevelOnce(g) == { <<Info>> }

\* the values a read of l.level may give: the level, or anything when a store
\* by another goroutine is under way
ReadLevel(g) ==
    IF storing \ {g} = {} THEN { <<level>> }
    ELSE { <<level>>, <<Torn>> } \cup { proc[q].val : q \in storing \ {g} }

\* return l.level, or the switch on l.level in LevelName
Read(g) ==
    \E r \in ReadLevel(g) :
        /\ proc[g].pc = "read"
        /\ proc' = [proc EXCEPT ![g].rd = r, ![g].pc = "Unlock"]
        /\ UNCHANGED <<sinks, heap, level, nconf, last, opts, built, written, prev, mutex,
                       storing>>

\* faulty variant: switchToLevel leaving the mutex locked when no case matches
UnlockedOnMatch(g) == IF proc[g].op = "SwitchTo" /\ proc[g].val = <<>> THEN mutex ELSE NoProc

\* the holder of the mutex after l.mutex.Unlock()
Unlocked(g) == NoProc

\* l.mutex.Unlock(), deferred or not, and the return; in a gated method it is
\* Level() that returns
Unlock(g) ==
    /\ proc[g].pc = "Unlock"
    /\ mutex' = Unlocked(g)
    /\ proc' = [proc EXCEPT ![g].pc = IF proc[g].field # "" THEN "if" ELSE "done"]
    /\ UNCHANGED <<sinks, heap, level, nconf, last, opts, built, written, prev, storing>>

\* if l.Level() >= gate: the comparison of the value Level() has returned
Compare(g) ==
    /\ proc[g].pc = "if"
    /\ proc' = [proc EXCEPT ![g].pc = IF Admitted(proc[g].rd[1], proc[g].gate)
                                      THEN "Printf" ELSE "done"]
    /\ UNCHANGED <<sinks, heap, level, nconf, last, opts, built, written, prev, mutex,
                   storing>>

\* faulty variant: the line written only if the level still admits it
PrintedIfStill(g) ==
    IF Admitted(level, proc[g].gate)
    THEN <<Output(heap, sinks[proc[g].field], proc[g].call)>> ELSE <<>>

\* the line the Print or Printf call of a gated method writes
Printed(g) == <<Output(heap, sinks[proc[g].field], proc[g].call)>>

\* l.log<Level>.Printf(...) or Print(...), then the return
Printf(g) ==
    /\ proc[g].pc = "Printf"
    /\ proc' = [proc EXCEPT ![g].lines = Printed(g), ![g].pc = "done"]
    /\ UNCHANGED <<sinks, heap, level, nconf, last, opts, built, written, prev, mutex,
                   storing>>

\* one step of a call the goroutine is in
Step(g) ==
    Lock(g) \/ Store(g) \/ Stored(g) \/ Read(g) \/ Unlock(g) \/ Compare(g) \/ Printf(g)

NextConc ==
    \/ \E g \in Procs : Begin(g)
    \/ \E g \in Procs : Lock(g)
    \/ \E g \in Procs : Store(g)
    \/ \E g \in Procs : Stored(g)
    \/ \E g \in Procs : Read(g)
    \/ \E g \in Procs : Unlock(g)
    \/ \E g \in Procs : Compare(g)
    \/ \E g \in Procs : Printf(g)

SpecConc == Init /\ [][NextConc]_vars

\* the scheduler runs every goroutine that can take a step, and a goroutine
\* waiting in Lock gets the mutex once it stays free
SpecConcFair == SpecConc /\ \A g \in Procs : WF_vars(Step(g))

(* ------------------------------------------------------------------ *)
(* properties                                                          *)
(* ------------------------------------------------------------------ *)

\* the severity of each gated method, by its name
MethodSeverity ==
    [n \in {"Critical", "Criticalf", "Error", "Errorf", "Warning", "Warningf", "Notice",
            "Noticef", "Info", "Infof", "Debug", "Debugf", "Trace", "Tracef"} |->
        CASE n \in {"Critical", "Criticalf"} -> Critical
          [] n \in {"Error", "Errorf"} -> Error
          [] n \in {"Warning", "Warningf"} -> Warning
          [] n \in {"Notice", "Noticef"} -> Notice
          [] n \in {"Info", "Infof"} -> Info
          [] n \in {"Debug", "Debugf"} -> Debug
          [] n \in {"Trace", "Tracef"} -> Trace]

\* the field that holds the sink of a severity
SinkField ==
    [v \in Critical..Trace |->
        CASE v = Critical -> "logCritical"
          [] v = Error -> "logError"
          [] v = Warning -> "logWarning"
          [] v = Notice -> "logNotice"
          [] v = Info -> "logInfo"
          [] v = Debug -> "logDebug"
          [] v = Trace -> "logTrace"]

\* the destination a field's line logger writes to
Dest(s, h, f) == h[s[f]].out

\* C1: a gated method called under filter level F writes a line if and only if
\* F >= S, S the method's severity; under All every method writes, under
\* Critical only Critical and Criticalf do.
C1_MonotonicAdmission ==
    last.op \in DOMAIN MethodSeverity =>
        /\ Len(last.lines) = (IF level >= MethodSeverity[last.op] THEN 1 ELSE 0)
        /\ level = All => Len(last.lines) = 1
        /\ level = Critical => (Len(last.lines) = 1 <=> MethodSeverity[last.op] = Critical)

C1_Witness ==
    /\ last.op = "Warningf"
    /\ level = Warning
    /\ Len(last.lines) = 1

\* C2: Fatal, Fatalf, Panic and Panicf write their line through the line logger
\* the field logCritical holds, whatever the filter level is.
C2_FatalPanicBypass ==
    last.op \in {"Fatal", "Fatalf", "Panic", "Panicf"} =>
        /\ Len(last.lines) = 1
        /\ last.lines[1].dest = heap[sinks["logCritical"]].out
        /\ last.lines[1].prefix = heap[sinks["logCritical"]].prefix
        /\ last.lines[1].flags = heap[sinks["logCritical"]].flags

C2_Witness ==
    /\ last.op = "Panicf"
    /\ level = Critical
    /\ Len(last.lines) = 1
    /\ last.lines[1].dest = "buf1"
    /\ heap[sinks["logError"]].out = "os.Stderr"

\* the string is no level name once trimmed and put in upper case
NoLevelName(name) ==
    \A i \in 1..Len(LevelNameList) : ToUpper(TrimSpace(name)) # LevelNameList[i]

\* C3: SwitchTo with a string that, trimmed and in upper case, is none of the
\* eight names changes neither the filter level nor any sink, and returns.
C3_InvalidNameNoOp ==
    [][(last'.op = "SwitchTo" /\ last'.arg.type = "string" /\ NoLevelName(last'.arg.name))
         => /\ level' = level
            /\ sinks' = sinks
            /\ heap' = heap
            /\ last'.outcome = "return"]_vars

C3_Witness ==
    /\ last.op = "SwitchTo"
    /\ last.arg.type = "string"
    /\ last.arg.name = <<"b", "o", "g", "u", "s">>
    /\ level = Warning
    /\ heap[sinks["logInfo"]].out = "buf2"

\* the spellings of the i-th level name: upper case, lower case or capitalised,
\* between white space
Spellings ==
    [i \in 1..Len(LevelNameList) |->
        { p[1] \o c \o p[2] :
            c \in {LevelNameList[i], ToLowerName(LevelNameList[i]),
                   Capitalised(LevelNameList[i])},
            p \in Paddings }]

\* C4: SwitchTo with any spelling of a level name sets the filter level to that
\* level; Level() returns the filter level and LevelName() its upper-case name.
C4_NameSwitch ==
    /\ [][\A i \in 1..Len(LevelNameList) :
            (last'.op = "SwitchTo" /\ last'.arg.type = "string"
                /\ last'.arg.name \in Spellings[i])
            => (level' = i - 1 /\ last'.outcome = "return")]_vars
    /\ [](last.op = "Level" => last.ret = <<level>>)
    /\ [](last.op = "LevelName" =>
            level \in Critical..All /\ last.ret = <<LevelNameList[level + 1]>>)

C4_Witness ==
    /\ last.op = "SwitchTo"
    /\ last.arg.name = <<" ", " ", "E", "r", "r", "o", "r", " ", " ">>
    /\ level = Error

\* C5: SwitchTo with an int that is the ordinal of a level returns normally and
\* sets the filter level to that level.
C5_IntOrdinal ==
    (last.op = "SwitchTo" /\ last.arg.type = "int" /\ last.arg.val \in Critical..All)
        => (last.outcome = "return" /\ level = last.arg.val)

\* C6: SwitchTo with a LogLevel or an int outside Critical..All leaves the
\* filter level unchanged and raises no error; the filter level is always one
\* of the eight values and LevelName() never returns "?".
C6_OutOfRangeIgnored ==
    /\ [][(last'.op = "SwitchTo" /\ last'.arg.type \in {"int", "LogLevel"}
              /\ last'.arg.val \notin Critical..All)
            => (level' = level /\ last'.outcome = "return")]_vars
    /\ [](level \in Critical..All /\ LevelName(level) # <<"?">>)

\* the accessor of each severity, by its name
AccessorSeverity ==
    [n \in {"CriticalLogger", "ErrorLogger", "WarningLogger", "NoticeLogger", "InfoLogger",
            "DebugLogger", "TraceLogger"} |->
        CASE n = "CriticalLogger" -> Critical
          [] n = "ErrorLogger" -> Error
          [] n = "WarningLogger" -> Warning
          [] n = "NoticeLogger" -> Notice
          [] n = "InfoLogger" -> Info
          [] n = "DebugLogger" -> Debug
          [] n = "TraceLogger" -> Trace]

\* C7: the accessor of a severity returns the line logger the gated method of
\* that severity writes to, whatever the filter level is.
C7_AccessorOwnSink ==
    last.op \in DOMAIN AccessorSeverity =>
        \A m \in EmitMethods :
            m.gate = AccessorSeverity[last.op] => last.ret = <<sinks[m.field]>>

\* C8: SetOutput for one level other than All changes the destination of that
\* level only.
C8_OutputOneLevel ==
    [][(last'.op \in {"SetOutput", "Logger.SetOutput"} /\ last'.arg.val \in Critical..Trace)
         => \A v \in Critical..Trace :
               v # last'.arg.val =>
                   Dest(sinks', heap', SinkField[v]) = Dest(sinks, heap, SinkField[v])]_vars

\* the fields other than fs keep their line loggers: the same fields, and the
\* same fields shared
Kept(fs) ==
    /\ \A f \in FieldSet \ fs : heap'[sinks'[f]] = heap[sinks[f]]
    /\ \A f, g \in FieldSet \ fs : (sinks'[f] = sinks'[g]) <=> (sinks[f] = sinks[g])

\* the fields fs hold line loggers made from the Config of the call
Made(fs) ==
    \A f \in fs : /\ heap'[sinks'[f]].out = last'.cfg.Out
                  /\ heap'[sinks'[f]].prefix = last'.cfg.Label
                  /\ heap'[sinks'[f]].flags = last'.cfg.Flags

DefaultGroup == {"logWarning", "logNotice", "logInfo", "logDebug", "logTrace"}

ErrorGroup == {"logError", "logCritical"}

\* C9: SetDefault sets the sinks of Warning, Notice, Info, Debug and Trace and
\* leaves those of Error and Critical; SetErrorDefault sets those of Error and
\* Critical and leaves the other five; SetAllDefault sets all seven; none of
\* them changes the filter level.
C9_GroupDefaults ==
    [][/\ last'.op = "SetDefault" => (Made(DefaultGroup) /\ Kept(DefaultGroup) /\ level' = level)
       /\ last'.op = "SetErrorDefault" => (Made(ErrorGroup) /\ Kept(ErrorGroup) /\ level' = level)
       /\ last'.op = "SetAllDefault" => (Made(FieldSet) /\ level' = level)]_vars

C9_Witness ==
    /\ last.op = "SetDefault"
    /\ last.cfg.Out = "os.Stderr"
    /\ heap[sinks["logInfo"]].out = "os.Stderr"
    /\ heap[sinks["logError"]].out = "buf1"
    /\ heap[sinks["logCritical"]].out = "os.Stderr"

\* C10: after SetOutput with level All, as an option or as a method, the line
\* logger of every gated method and of every accessor writes to w.
C10_OutputAll ==
    (last.op \in {"SetOutput", "Logger.SetOutput"} /\ last.arg.val = All) =>
        /\ \A m \in EmitMethods : Dest(sinks, heap, m.field) = last.w
        /\ \A a \in Accessors : Dest(sinks, heap, a.field) = last.w

C10_Witness ==
    /\ last.op = "Logger.SetOutput"
    /\ last.arg.val = All
    /\ heap[sinks["logInfo"]].prefix = <<"A", "P", "P", " ">>
    /\ heap[sinks["logInfo"]].out = "buf2"
    /\ sinks["logInfo"] # sinks["logDebug"]

\* the fields an option addresses: those of its group, of its level, or all
Addressed(o) ==
    CASE o.kind = "SetDefault" -> DefaultGroup
      [] o.kind = "SetErrorDefault" -> ErrorGroup
      [] o.kind = "SetAllDefault" -> FieldSet
      [] o.kind = "SetDebug" -> {"logDebug"}
      [] o.kind = "SetTrace" -> {"logTrace"}
      [] o.kind = "SetCritical" -> {"logCritical"}
      [] o.kind = "SetError" -> {"logError"}
      [] o.kind = "SetWarning" -> {"logWarning"}
      [] o.kind = "SetNotice" -> {"logNotice"}
      [] o.kind = "SetInfo" -> {"logInfo"}
      [] o.kind = "SetOutput" ->
            IF o.arg.val = All THEN FieldSet
            ELSE IF o.arg.val \in Critical..Trace THEN {SinkField[o.arg.val]}
            ELSE {}

\* the sink the options os give the field f, c being the sink it has before
\* them: each option that addresses f replaces the sink, or its destination
RECURSIVE Given(_, _, _)
Given(os, f, c) ==
    IF os = <<>> THEN c
    ELSE LET o == Head(os)
         IN  Given(Tail(os), f,
                   IF f \notin Addressed(o) THEN c
                   ELSE IF o.kind = "SetOutput" THEN [c EXCEPT !.out = o.w]
                   ELSE logNew(o.cfg))

\* the sink New gives the field f before it applies the options
DefaultSink(f) == NewDefaults.h[NewDefaults.s[f]]

\* C11: after New(options), the sink of each level is the one given by the last
\* option of the list that addresses the level, and the default one if none
\* does: SetInfo after SetDefault wins for Info only, SetDefault after SetInfo
\* overrides the Info sink.
C11_LastOptionWins ==
    built => \A f \in FieldSet : heap[sinks[f]] = Given(opts, f, DefaultSink(f))

\* the same for the lists of options that take a Config
C11_LastConfigWins ==
    (built /\ \A i \in 1..Len(opts) : opts[i].kind \in ConfigOptions) =>
        \A f \in FieldSet : heap[sinks[f]] = Given(opts, f, DefaultSink(f))

\* SetDefault, then SetInfo: Info has the sink of SetInfo, Debug that of SetDefault
C11_Witness ==
    /\ built
    /\ Len(opts) = MaxConfigOps
    /\ opts[Len(opts) - 1].kind = "SetDefault"
    /\ opts[Len(opts)].kind = "SetInfo"
    /\ opts[Len(opts)].cfg # opts[Len(opts) - 1].cfg
    /\ Dest(sinks, heap, "logInfo") = opts[Len(opts)].cfg.Out
    /\ Dest(sinks, heap, "logDebug") = opts[Len(opts) - 1].cfg.Out

\* the gated methods of both variants and the severity of each
AnySeverity ==
    [n \in DOMAIN MethodSeverity \cup { m.name : m \in OldEmitMethods } |->
        IF n \in DOMAIN MethodSeverity THEN MethodSeverity[n]
        ELSE (CHOOSE m \in OldEmitMethods : m.name = n).gate]

\* C12: a logger built by New with no options has the level Info and a line
\* logger in each of the seven fields, those of Critical and Error writing to
\* os.Stderr and the other five to os.Stdout, so that an admitted call of a
\* gated method writes a line and returns.
C12_Defaults ==
    (built /\ opts = <<>>) =>
        /\ last.op = "New" => level = Info
        /\ \A f \in FieldSet : sinks[f] # Nil
        /\ \A f \in ErrorGroup : sinks[f] # Nil => Dest(sinks, heap, f) = "os.Stderr"
        /\ \A f \in DefaultGroup : sinks[f] # Nil => Dest(sinks, heap, f) = "os.Stdout"
        /\ (last.op \in DOMAIN AnySeverity /\ level >= AnySeverity[last.op]) =>
                (last.outcome = "return" /\ Len(last.lines) = 1)

Denotes(arg, X) ==
    \/ arg.type = "LogLevel" /\ arg.val = X
    \/ arg.type = "string" /\ arg.name \in Spellings[X + 1]

\* C14: SwitchTo(X) called twice leaves the logger as SwitchTo(X) called once
\* does; for a level X, Level() then returns X; SwitchTo changes no sink.
C14_IdempotentSwitch ==
    /\ [][last'.op = "SwitchTo" =>
            /\ sinks' = sinks /\ heap' = heap
            /\ \A X \in Critical..All : Denotes(last'.arg, X) => level' = X
            /\ (prev.op = "SwitchTo" /\ prev.arg = last'.arg) =>
                    (level' = level /\ last' = prev)]_vars
    /\ [](\A X \in Critical..All :
            (last.op = "Level" /\ prev.op = "SwitchTo" /\ Denotes(prev.arg, X))
                => last.ret = <<X>>)

\* SwitchTo(Debug) after SwitchTo(Debug), on a logger set up by SetErrorDefault
C14_Witness ==
    /\ last.op = "SwitchTo"
    /\ last.arg = LevelArg(Debug)
    /\ prev = last
    /\ level = Debug
    /\ nconf > 0

\* the goroutines between the return of Lock and the return of Unlock
InSection == { g \in Procs : proc[g].pc \in {"store", "stored", "read", "Unlock"} }

\* the levels a call may find: the one New sets and those the SwitchTo calls store
Storable == {Info} \cup { SwitchTo(a, Info).level : a \in ConcArgs }

\* C15: every read and every write of the level is made by the holder of the
\* mutex, at most one goroutine is between Lock and Unlock, and a read gives
\* the level New set or a level a SwitchTo has stored, never a value in between.
C15_LevelUnderMutex ==
    /\ \A g \in InSection : mutex = g
    /\ Cardinality(InSection) <= 1
    /\ storing \subseteq InSection
    /\ level \in Storable
    /\ \A g \in Procs : proc[g].rd # <<>> => proc[g].rd[1] \in Storable

\* one goroutine is in the middle of the store, the other waits in Lock to read
C15_Witness ==
    \E g, q \in Procs :
        /\ proc[g].pc = "stored"
        /\ g \in storing
        /\ proc[q].pc = "Lock"
        /\ proc[q].op = "Level"

\* the goroutine has taken a step
Stepped(g) == proc'[g].pc # proc[g].pc \/ proc'[g].calls # proc[g].calls

C16_WitnessDropped ==
    \E g \in Procs :
        /\ proc[g].op = "Debug"
        /\ proc[g].pc = "done"
        /\ proc[g].lines = <<>>
        /\ proc[g].rd = <<Info>>
        /\ All \in proc[g].cur
        /\ level = All

\* no goroutine is inside a call
Quiescent == \A g \in Procs : ~InCall(proc[g])

\* C17: a call takes the mutex at most once, never while it holds it, and has
\* released it when it returns, on every path; when the scheduler is fair every
\* call returns, and the mutex is free whenever no call is under way.
C17_Releases ==
    /\ [](\A g \in Procs : /\ proc[g].acq <= 1
                           /\ proc[g].pc = "Lock" => mutex # g
                           /\ proc[g].pc \in {"idle", "done", "if", "Printf"} => mutex # g)
    /\ [](Quiescent => mutex = NoProc)
    /\ \A g \in Procs : InCall(proc[g]) ~> ~InCall(proc[g])
    /\ <>[]Quiescent

\* both goroutines have returned, one from a SwitchTo that no case matched and
\* one from a gated method, and the mutex is free
C17_Witness ==
    /\ Quiescent
    /\ mutex = NoProc
    /\ \E g, q \in Procs :
        /\ proc[g].op = "SwitchTo" /\ proc[g].arg.type = "string"
        /\ proc[g].val = <<>> /\ proc[g].acq > 0
        /\ proc[q].op = "Warningf" /\ Len(proc[q].lines) = 1

\* the goroutine has returned from a gated method
Emitted(g) == proc[g].pc = "done" /\ proc[g].field # ""

\* C18: a line a gated method of severity S has written was admitted by a level
\* F >= S that was the level at some instant of the call; a call that wrote
\* nothing found a level F < S that was the level at some instant of the call;
\* no step of a gated method changes the level or a sink.
C18_AdmittedDuringCall ==
    /\ [](\A g \in Procs : Emitted(g) =>
            \E F \in proc[g].cur :
                /\ proc[g].rd = <<F>>
                /\ IF proc[g].lines # <<>> THEN F >= proc[g].gate ELSE F < proc[g].gate)
    /\ [][\A g \in Procs : (proc[g].field # "" /\ InCall(proc[g]) /\ Stepped(g)) =>
            (level' = level /\ sinks' = sinks /\ heap' = heap)]_vars

\* Debug began under the level Info, another goroutine stored All during the
\* call, and Debug has written its line
C18_Witness ==
    \E g \in Procs :
        /\ Emitted(g)
        /\ proc[g].op = "Debug"
        /\ Len(proc[g].lines) = 1
        /\ proc[g].rd = <<All>>
        /\ proc[g].cur = {Info, All}

====
